---- MODULE Spec2Model ----
(***************************************************************************)
(* The chunk engine of hub/core/chunk_engine.py: samples are packed into   *)
(* chunks of at most max_chunk_size bytes, the chunk id encoder maps the   *)
(* global sample index to the chunk that holds the sample, and the tensor  *)
(* meta counts the samples.  The engine's collaborators (Chunk, the        *)
(* header encoders, ChunkIdEncoder, TensorMeta, Sample, the codec and the  *)
(* cache) are modelled from their documented contracts.                    *)
(***************************************************************************)
EXTENDS Integers, Sequences, FiniteSets, TLC

\* ------------------------------------------------------------------------
\* Bounds of the model
\* ------------------------------------------------------------------------
\* largest max_chunk_size an engine is constructed with
MaxChunk == 4
\* largest number of elements of one input array
MaxLen == 2
\* cap on TensorMeta.length (the writes stop there)
MaxSamples == 4
\* largest number of samples handed to one extend call
MaxBatch == 2
\* number of appends of the end-to-end scenarios S1 and S2
ScenarioAppends == 10

ByteVals == {0, 1}
UNCOMPRESSED == "uncompressed"
Compressions == {UNCOMPRESSED, "zstrip"}
NoErr == "none"
None == 0

VARIABLES
    max_chunk_size,     \* ChunkEngine.max_chunk_size
    tensor_meta,        \* cache["tensor_meta/K"]
    enc_exists,         \* "chunk_id_encoder/K" in cache
    enc,                \* cache["chunk_id_encoder/K"]: the encoder's rows
    chunks,             \* cache["chunks/K/<name>"]: chunk id -> Chunk
    appended,           \* history: the samples the callers have had committed, in order
    result,             \* outcome of the last call: what the caller observed
    frame               \* the append that is running statement by statement: its
                        \* position and its locals

vars == <<max_chunk_size, tensor_meta, enc_exists, enc, chunks, appended, result, frame>>

Min(a, b) == IF a <= b THEN a ELSE b

\* ------------------------------------------------------------------------
\* Samples: numpy arrays and scalars handed to append / extend
\* ------------------------------------------------------------------------
\* number of elements of an array of the given shape
NumElems(shape) == IF shape = <<>> THEN 1 ELSE shape[1]

Fill(n, v) == [i \in 1..n |-> v]

ArraySample(n, v, dtype) ==
    [kind |-> "ndarray", dtype |-> dtype, shape |-> <<n>>, data |-> Fill(n, v)]

ScalarSample(v, dtype) ==
    [kind |-> "scalar", dtype |-> dtype, shape |-> <<>>, data |-> <<v>>]

\* the inputs of the model: uint8 arrays of 0..MaxLen equal elements, uint8
\* scalars, and one array of a foreign dtype
Samples ==
    {ArraySample(n, v, "uint8") : n \in 0..MaxLen, v \in ByteVals}
        \cup {ScalarSample(v, "uint8") : v \in ByteVals}
        \cup {ArraySample(1, 0, "int8")}

\* ------------------------------------------------------------------------
\* Compression collaborator: a codec whose output length depends on the
\* content (trailing zero bytes are dropped, the shape restores them)
\* ------------------------------------------------------------------------
RECURSIVE StripZeros(_)
StripZeros(bytes) ==
    IF bytes = <<>> THEN <<>>
    ELSE IF bytes[Len(bytes)] = 0 THEN StripZeros(SubSeq(bytes, 1, Len(bytes) - 1))
    ELSE bytes

compress(data, tag) == StripZeros(data)

decompress_array(buffer, shape) ==
    [shape |-> shape,
     data  |-> buffer \o [i \in 1..(NumElems(shape) - Len(buffer)) |-> 0]]

\* np.frombuffer(buffer, dtype).reshape(shape): one byte per element;
\* the data <<-2>> stands for the ValueError of a buffer of another size
frombuffer_reshape(buffer, shape) ==
    IF Len(buffer) = NumElems(shape)
    THEN [shape |-> shape, data |-> buffer]
    ELSE [shape |-> shape, data |-> <<-2>>]

\* Sample.compressed_bytes(compression)
compressed_bytes(sample, compression) ==
    IF compression = UNCOMPRESSED THEN sample.data
    ELSE compress(sample.data, compression)

\* ------------------------------------------------------------------------
\* TensorMeta: dtype, arity of the element shape, compression tag, length
\* ------------------------------------------------------------------------
NoNdim == -1

\* TensorMeta.check_compatibility(shape, dtype): TRUE iff it does not raise
check_compatibility(meta, shape, dtype) ==
    /\ dtype = meta.dtype
    /\ (meta.ndim = NoNdim \/ meta.ndim = Len(shape))

\* TensorMeta.update(shape, dtype, num_samples)
meta_update(meta, shape, dtype, num_samples) ==
    [meta EXCEPT !.ndim = Len(shape), !.length = @ + num_samples]

\* ------------------------------------------------------------------------
\* ChunkIdEncoder: rows (chunk id, last global sample index)
\* ------------------------------------------------------------------------
enc_num_samples(rows) == IF rows = <<>> THEN 0 ELSE rows[Len(rows)].last + 1

enc_num_chunks(rows) == Cardinality({rows[i].id : i \in DOMAIN rows})

\* generate_chunk_id(): a fresh id, registered in a new row that holds no sample
generate_chunk_id(rows, id) ==
    Append(rows, [id |-> id, last |-> enc_num_samples(rows) - 1])

register_samples_to_last_chunk_id(rows, n) ==
    IF rows = <<>> THEN rows
    ELSE [rows EXCEPT ![Len(rows)].last = @ + n]

\* the row that holds global sample index g: the first whose last index is >= g
enc_row(rows, g) ==
    CHOOSE i \in DOMAIN rows :
        /\ rows[i].last >= g
        /\ \A j \in 1..(i - 1) : rows[j].last < g

\* ChunkIdEncoder.__getitem__(g)
enc_getitem(rows, g) == rows[enc_row(rows, g)].id

\* ChunkIdEncoder.get_local_sample_index(g)
get_local_sample_index(rows, g) ==
    LET i == enc_row(rows, g)
    IN  IF i = 1 THEN g ELSE g - (rows[i - 1].last + 1)

\* ChunkIdEncoder.get_name_for_chunk(-1)
last_chunk_id(rows) == rows[Len(rows)].id

\* ------------------------------------------------------------------------
\* Chunk: data bytes and the two run encoded headers
\*   shapes rows: (value, last local index)
\*   ranges rows: (per-sample size, last local index, end byte of the run)
\* ------------------------------------------------------------------------
EmptyChunk == [data |-> <<>>, shapes |-> <<>>, ranges |-> <<>>]

num_data_bytes(chunk) == Len(chunk.data)

is_under_min_space(chunk, min_data_bytes_target) ==
    num_data_bytes(chunk) < min_data_bytes_target

has_space_for(chunk, num_bytes, max_data_bytes) ==
    num_data_bytes(chunk) + num_bytes <= max_data_bytes

\* number of samples the headers of a chunk describe
header_num_samples(rows) == IF rows = <<>> THEN 0 ELSE rows[Len(rows)].last + 1

shapes_add(rows, shape, n) ==
    IF rows # <<>> /\ rows[Len(rows)].value = shape
    THEN [rows EXCEPT ![Len(rows)].last = @ + n]
    ELSE Append(rows, [value |-> shape, last |-> header_num_samples(rows) + n - 1])

ranges_end(rows) == IF rows = <<>> THEN 0 ELSE rows[Len(rows)].end

ranges_add(rows, num_bytes, n) ==
    LET size == num_bytes \div n
    IN  IF rows # <<>> /\ rows[Len(rows)].size = size
        THEN [rows EXCEPT ![Len(rows)].last = @ + n, ![Len(rows)].end = @ + num_bytes]
        ELSE Append(rows, [size |-> size,
                           last |-> header_num_samples(rows) + n - 1,
                           end  |-> ranges_end(rows) + num_bytes])

\* Chunk.update_headers(num_new_bytes, num_new_samples, shape)
update_headers(chunk, num_new_bytes, num_new_samples, shape) ==
    [chunk EXCEPT !.shapes = shapes_add(@, shape, num_new_samples),
                  !.ranges = ranges_add(@, num_new_bytes, num_new_samples)]

header_row(rows, i) ==
    CHOOSE r \in DOMAIN rows :
        /\ rows[r].last >= i
        /\ \A q \in 1..(r - 1) : rows[q].last < i

\* chunk.shapes_encoder[local_sample_index]
shapes_getitem(rows, i) == rows[header_row(rows, i)].value

\* chunk.byte_positions_encoder[local_sample_index]: (start byte, end byte)
ranges_getitem(rows, i) ==
    LET r     == header_row(rows, i)
        first == IF r = 1 THEN 0 ELSE rows[r - 1].last + 1
        count == rows[r].last - first + 1
        start == rows[r].end - count * rows[r].size
        sb    == start + (i - first) * rows[r].size
    IN  <<sb, sb + rows[r].size>>

\* ------------------------------------------------------------------------
\* ChunkEngine.  An engine method is an operator on the world w it runs in:
\* the cache entries of the tensor, the error the call has raised so far
\* (NoErr: none, the call is still running) and the call's bookkeeping
\* (flushes: calls of cache.maybe_flush, dirty: a chunk was written since the
\* last of them, done: loop iterations completed).
\* ------------------------------------------------------------------------
Raise(w, e) == [w EXCEPT !.err = e]

\* faulty variant: the target is the whole chunk, not half of it
min_chunk_size_target_whole == max_chunk_size

\* ChunkEngine.__init__: self.min_chunk_size_target
min_chunk_size_target == max_chunk_size \div 2

\* faulty variant: the quotient is rounded down
_min_chunk_ct_for_data_size_floor(chunk_max_data_bytes, size) ==
    size \div chunk_max_data_bytes

\* ceil(size / chunk_max_data_bytes)
_min_chunk_ct_for_data_size(chunk_max_data_bytes, size) ==
    (size + chunk_max_data_bytes - 1) \div chunk_max_data_bytes

chunk_id_encoder_exists(w) == w.enc_exists

\* faulty variant: a missing encoder is an error as soon as the length is 1
chunk_id_encoder_strict(w) ==
    IF ~chunk_id_encoder_exists(w)
    THEN IF w.meta.length > 0
         THEN Raise(w, "CorruptedMetaError")
         ELSE [w EXCEPT !.enc_exists = TRUE, !.enc = <<>>]
    ELSE w

\* the property chunk_id_encoder: the world after the access
chunk_id_encoder(w) ==
    IF ~chunk_id_encoder_exists(w)
    THEN IF w.meta.length > 1
         THEN Raise(w, "CorruptedMetaError")
         ELSE [w EXCEPT !.enc_exists = TRUE, !.enc = <<>>]
    ELSE w

num_chunks(w) ==
    IF ~chunk_id_encoder_exists(w) THEN 0 ELSE enc_num_chunks(w.enc)

num_samples(w) ==
    IF ~chunk_id_encoder_exists(w) THEN 0 ELSE enc_num_samples(w.enc)

\* faulty variant: the chunk of the first row of the encoder is taken
last_chunk_first(w) ==
    IF num_chunks(w) = 0 THEN None ELSE w.enc[1].id

\* the property last_chunk: the id of the chunk, None when there is no chunk
last_chunk(w) ==
    IF num_chunks(w) = 0 THEN None ELSE last_chunk_id(w.enc)

\* Chunk.append_sample(buffer, max_data_bytes) on the chunk with the given id
append_sample(w, id, buffer, max_data_bytes) ==
    IF ~has_space_for(w.chunks[id], Len(buffer), max_data_bytes)
    THEN Raise(w, "FullChunkError")
    ELSE [w EXCEPT !.chunks[id].data = @ \o buffer, !.dirty = TRUE]

\* faulty variant: the buffer goes to the last chunk whenever there is one
_try_appending_to_last_chunk_unguarded(w, buffer) ==
    LET lc == last_chunk(w)
    IN  IF lc = None THEN [w |-> w, ok |-> FALSE]
        ELSE [w |-> append_sample(w, lc, buffer, max_chunk_size), ok |-> TRUE]

\* faulty variant: the last chunk takes the buffer whenever the buffer fits
_try_appending_to_last_chunk_fits(w, buffer) ==
    LET lc == last_chunk(w)
    IN  IF lc = None THEN [w |-> w, ok |-> FALSE]
        ELSE IF has_space_for(w.chunks[lc], Len(buffer), max_chunk_size)
        THEN [w |-> append_sample(w, lc, buffer, max_chunk_size), ok |-> TRUE]
        ELSE [w |-> w, ok |-> FALSE]

\* faulty variant: the buffer is combined when the two chunk counts differ
_try_appending_to_last_chunk_inverted(w, buffer) ==
    LET lc == last_chunk(w)
        incoming_num_bytes == Len(buffer)
    IN  IF lc = None THEN [w |-> w, ok |-> FALSE]
        ELSE IF is_under_min_space(w.chunks[lc], min_chunk_size_target)
        THEN LET last_chunk_size == num_data_bytes(w.chunks[lc])
                 chunk_ct_content ==
                     _min_chunk_ct_for_data_size(max_chunk_size, incoming_num_bytes)
                 extra_bytes ==
                     Min(incoming_num_bytes, max_chunk_size - last_chunk_size)
                 combined_chunk_ct ==
                     _min_chunk_ct_for_data_size(max_chunk_size,
                                                 incoming_num_bytes + last_chunk_size)
             IN  IF combined_chunk_ct # chunk_ct_content
                 THEN [w  |-> append_sample(w, lc, SubSeq(buffer, 1, extra_bytes),
                                            max_chunk_size),
                       ok |-> TRUE]
                 ELSE [w |-> w, ok |-> FALSE]
        ELSE [w |-> w, ok |-> FALSE]

\* faulty variant: the last chunk is topped up with as much of the buffer as fits
_try_appending_to_last_chunk_partial(w, buffer) ==
    LET lc == last_chunk(w)
        incoming_num_bytes == Len(buffer)
    IN  IF lc = None THEN [w |-> w, ok |-> FALSE]
        ELSE LET last_chunk_size == num_data_bytes(w.chunks[lc])
                 extra_bytes ==
                     Min(incoming_num_bytes, max_chunk_size - last_chunk_size)
             IN  [w  |-> append_sample(w, lc, SubSeq(buffer, 1, extra_bytes),
                                       max_chunk_size),
                  ok |-> TRUE]

\* returns the world and whether the buffer was written to the last chunk
_try_appending_to_last_chunk(w, buffer) ==
    LET lc == last_chunk(w)
        incoming_num_bytes == Len(buffer)
    IN  IF lc = None THEN [w |-> w, ok |-> FALSE]
        ELSE IF is_under_min_space(w.chunks[lc], min_chunk_size_target)
        THEN LET last_chunk_size == num_data_bytes(w.chunks[lc])
                 chunk_ct_content ==
                     _min_chunk_ct_for_data_size(max_chunk_size, incoming_num_bytes)
                 extra_bytes ==
                     Min(incoming_num_bytes, max_chunk_size - last_chunk_size)
                 combined_chunk_ct ==
                     _min_chunk_ct_for_data_size(max_chunk_size,
                                                 incoming_num_bytes + last_chunk_size)
             IN  IF combined_chunk_ct = chunk_ct_content
                 THEN [w  |-> append_sample(w, lc, SubSeq(buffer, 1, extra_bytes),
                                            max_chunk_size),
                       ok |-> TRUE]
                 ELSE [w |-> w, ok |-> FALSE]
        ELSE [w |-> w, ok |-> FALSE]

\* a new chunk under a fresh id, registered in the encoder and put in the cache
_create_new_chunk(w) ==
    LET w1 == chunk_id_encoder(w)
        chunk_id == Len(w1.chunks) + 1
    IN  IF w1.err # NoErr THEN w1
        ELSE [w1 EXCEPT !.enc = generate_chunk_id(@, chunk_id),
                        !.chunks = Append(@, EmptyChunk)]

_append_to_new_chunk(w, buffer) ==
    LET w1 == _create_new_chunk(w)
    IN  IF w1.err # NoErr THEN w1
        ELSE append_sample(w1, Len(w1.chunks), buffer, max_chunk_size)

\* faulty variant: the headers are updated, the samples are not registered
_synchronize_last_chunk_unregistered(w, num_new_samples, num_new_bytes, shape) ==
    LET w1 == chunk_id_encoder(w)
        lc == last_chunk(w1)
    IN  IF w1.err # NoErr THEN w1
        ELSE IF lc = None THEN Raise(w1, "AttributeError")
        ELSE [w1 EXCEPT !.chunks[lc] =
                  update_headers(@, num_new_bytes, num_new_samples, shape)]

\* faulty variant: the samples are registered, the headers are left as they were
_synchronize_last_chunk_no_headers(w, num_new_samples, num_new_bytes, shape) ==
    LET w1 == chunk_id_encoder(w)
    IN  IF w1.err # NoErr THEN w1
        ELSE [w1 EXCEPT !.enc = register_samples_to_last_chunk_id(@, num_new_samples)]

_synchronize_last_chunk(w, num_new_samples, num_new_bytes, shape) ==
    LET w1 == chunk_id_encoder(w)
        w2 == [w1 EXCEPT !.enc = register_samples_to_last_chunk_id(@, num_new_samples)]
        lc == last_chunk(w2)
    IN  IF w1.err # NoErr THEN w1
        ELSE IF lc = None THEN Raise(w2, "AttributeError")
        ELSE [w2 EXCEPT !.chunks[lc] =
                  update_headers(@, num_new_bytes, num_new_samples, shape),
                        !.dirty = TRUE]

\* faulty variant: the meta is updated before the compatibility check
_append_bytes_update_first(w, buffer, shape, dtype) ==
    LET num_samples_ == 1
        w1 == [w EXCEPT !.meta = meta_update(@, shape, dtype, num_samples_)]
        r  == _try_appending_to_last_chunk(w1, buffer)
        w2 == IF r.w.err # NoErr \/ r.ok THEN r.w
              ELSE _append_to_new_chunk(r.w, buffer)
    IN  IF ~check_compatibility(w.meta, shape, dtype)
        THEN Raise(w1, "TensorMetaMismatchError")
        ELSE IF w2.err # NoErr THEN w2
        ELSE _synchronize_last_chunk(w2, num_samples_, Len(buffer), shape)

_append_bytes(w, buffer, shape, dtype) ==
    IF ~check_compatibility(w.meta, shape, dtype)
    THEN Raise(w, "TensorMetaMismatchError")
    ELSE LET num_samples_ == 1
             w1 == [w EXCEPT !.meta = meta_update(@, shape, dtype, num_samples_)]
             r  == _try_appending_to_last_chunk(w1, buffer)
             w2 == IF r.w.err # NoErr \/ r.ok THEN r.w
                   ELSE _append_to_new_chunk(r.w, buffer)
         IN  IF w2.err # NoErr THEN w2
             ELSE _synchronize_last_chunk(w2, num_samples_, Len(buffer), shape)

\* faulty variant: a sample of exactly the target size is rejected too
_check_sample_size_strict(w, num_bytes) ==
    IF num_bytes >= min_chunk_size_target
    THEN Raise(w, "NotImplementedError")
    ELSE w

_check_sample_size(w, num_bytes) ==
    IF num_bytes > min_chunk_size_target
    THEN Raise(w, "NotImplementedError")
    ELSE w

\* self.cache.maybe_flush(): the cache may write its dirty entries out
maybe_flush(w) == [w EXCEPT !.flushes = @ + 1, !.dirty = FALSE]

\* the last statement of append and of extend, self.cache.maybe_flush(): an
\* exception raised before it leaves the method without reaching it
flush_on_return(w) == IF w.err # NoErr THEN w ELSE maybe_flush(w)

\* faulty variant: the call returns without handing control to the cache
append_no_flush(w, sample) ==
    LET compression == w.meta.sample_compression
        data == compressed_bytes(sample, compression)
        w1 == _check_sample_size(w, Len(data))
    IN  IF w1.err # NoErr THEN w1
        ELSE _append_bytes(w1, data, sample.shape, sample.dtype)

\* ChunkEngine.append(sample); an exception leaves the method at once
append(w, sample) ==
    LET compression == w.meta.sample_compression
        data == compressed_bytes(sample, compression)
        w1 == _check_sample_size(w, Len(data))
        w2 == IF w1.err # NoErr THEN w1
              ELSE _append_bytes(w1, data, sample.shape, sample.dtype)
    IN  flush_on_return(w2)

\* type(s) of a sample: ndarray for every array, the numpy scalar type otherwise
pytype(s) == IF s.kind = "scalar" THEN s.dtype ELSE s.kind

is_uniform_sequence(items) ==
    IF Cardinality({pytype(items[i]) : i \in DOMAIN items}) # 1 THEN FALSE
    ELSE IF \E i \in DOMAIN items : items[i].kind = "ndarray"
    THEN Cardinality({items[i].shape : i \in DOMAIN items}) = 1
    ELSE IF \E i \in DOMAIN items : items[i].kind = "Sample" THEN FALSE
    ELSE TRUE

\* little endian int16 layout of small non-negative elements
Widen(data) ==
    [i \in 1..(2 * Len(data)) |-> IF i % 2 = 1 THEN data[(i + 1) \div 2] ELSE 0]

\* np.array(samples) of a uniform sequence, as the rows its iteration yields:
\* mixed dtypes are promoted to a common one
np_array(items) ==
    IF Cardinality({items[i].dtype : i \in DOMAIN items}) = 1 THEN items
    ELSE [i \in DOMAIN items |->
             [items[i] EXCEPT !.dtype = "int16", !.data = Widen(@)]]

\* for ...: self._check_sample_size(num_bytes), over the byte lengths
RECURSIVE check_sizes(_, _, _)
check_sizes(w, sizes, i) ==
    IF i > Len(sizes) THEN w
    ELSE LET w1 == _check_sample_size(w, sizes[i])
         IN  IF w1.err # NoErr THEN [w1 EXCEPT !.at = i]
             ELSE check_sizes(w1, sizes, i + 1)

\* for buffer in buffers: self._append_bytes(buffer, sample.shape, sample.dtype)
RECURSIVE append_bytes_each(_, _, _, _, _)
append_bytes_each(w, buffers, shape, dtype, i) ==
    IF i > Len(buffers) THEN w
    ELSE LET w1 == _append_bytes(w, buffers[i], shape, dtype)
         IN  IF w1.err # NoErr THEN [w1 EXCEPT !.at = i]
             ELSE append_bytes_each([w1 EXCEPT !.done = @ + 1],
                                    buffers, shape, dtype, i + 1)

\* for sample in samples: self.append(sample)
RECURSIVE append_each(_, _, _)
append_each(w, items, i) ==
    IF i > Len(items) THEN w
    ELSE LET w1 == append(w, items[i])
         IN  IF w1.err # NoErr THEN [w1 EXCEPT !.at = i]
             ELSE append_each([w1 EXCEPT !.done = @ + 1], items, i + 1)

\* faulty variant: each sample is written right after its own size check
extend_ndarray_interleaved(w, items) ==
    LET compression == w.meta.sample_compression
        n == Len(items)
    IN  IF compression = UNCOMPRESSED
        THEN IF n = 0 THEN w
             ELSE append_each(w, items, 1)
        ELSE append_each(w, items, 1)

\* extend, branch isinstance(samples, np.ndarray)
extend_ndarray(w, items) ==
    LET compression == w.meta.sample_compression
        n == Len(items)
    IN  IF compression = UNCOMPRESSED
        THEN LET buffers == [i \in 1..n |-> items[i].data]
                 w1 == check_sizes(w, [i \in 1..n |-> Len(buffers[i])], 1)
             IN  IF w1.err # NoErr \/ n = 0 THEN w1
                 ELSE append_bytes_each(w1, buffers, items[n].shape, items[n].dtype, 1)
        ELSE LET w1 == check_sizes(w,
                         [i \in 1..n |-> Len(compressed_bytes(items[i], compression))], 1)
             IN  IF w1.err # NoErr THEN w1
                 ELSE append_each(w1, items, 1)

\* self.extend(np.array(samples)): the inner call of extend on a numpy array
extend_array(w, items) == flush_on_return(extend_ndarray(w, items))

\* ChunkEngine.extend(samples); an exception leaves the method at once
extend(w, samples) ==
    LET w1 == IF samples.type = "ndarray"
              THEN extend_ndarray(w, samples.items)
              ELSE IF samples.type = "list"
              THEN IF is_uniform_sequence(samples.items)
                   THEN extend_array(w, np_array(samples.items))
                   ELSE append_each(w, samples.items, 1)
              ELSE Raise(w, "TypeError")
    IN  flush_on_return(w1)

\* ------------------------------------------------------------------------
\* ChunkEngine, read path
\* ------------------------------------------------------------------------
header_has(rows, i) == i >= 0 /\ \E r \in DOMAIN rows : rows[r].last >= i

\* what stands for the IndexError of a lookup past the end of a header
IndexError == [shape |-> <<-1>>, data |-> <<-1>>]

\* buffer[sb:eb] of Python: out of range bounds are clamped
Slice(buffer, sb, eb) ==
    IF sb >= Min(eb, Len(buffer)) THEN <<>>
    ELSE SubSeq(buffer, sb + 1, Min(eb, Len(buffer)))

\* faulty variant: the headers are looked up with the global sample index
read_sample_from_chunk_global(w, global_sample_index, chunk) ==
    LET expect_compressed == w.meta.sample_compression # UNCOMPRESSED
        local_sample_index == global_sample_index
    IN  IF ~header_has(chunk.shapes, local_sample_index)
           \/ ~header_has(chunk.ranges, local_sample_index)
        THEN IndexError
        ELSE LET shape == shapes_getitem(chunk.shapes, local_sample_index)
                 range == ranges_getitem(chunk.ranges, local_sample_index)
                 buffer == Slice(chunk.data, range[1], range[2])
             IN  IF expect_compressed THEN decompress_array(buffer, shape)
                 ELSE frombuffer_reshape(buffer, shape)

read_sample_from_chunk(w, global_sample_index, chunk) ==
    LET expect_compressed == w.meta.sample_compression # UNCOMPRESSED
        local_sample_index == get_local_sample_index(w.enc, global_sample_index)
    IN  IF ~header_has(chunk.shapes, local_sample_index)
           \/ ~header_has(chunk.ranges, local_sample_index)
        THEN IndexError
        ELSE LET shape == shapes_getitem(chunk.shapes, local_sample_index)
                 range == ranges_getitem(chunk.ranges, local_sample_index)
                 buffer == Slice(chunk.data, range[1], range[2])
             IN  IF expect_compressed THEN decompress_array(buffer, shape)
                 ELSE frombuffer_reshape(buffer, shape)

\* one round of the loop of numpy: the sample at a global index
read(w, global_sample_index) ==
    IF ~header_has(w.enc, global_sample_index) THEN IndexError
    ELSE LET chunk_id == enc_getitem(w.enc, global_sample_index)
         IN  IF chunk_id \notin DOMAIN w.chunks THEN IndexError
             ELSE read_sample_from_chunk(w, global_sample_index, w.chunks[chunk_id])

\* index.values[0].indices(length) of the slice start:stop
indices(index, length) ==
    [i \in 1..(Min(index.stop, length) - Min(index.start, length)) |->
        Min(index.start, length) + i - 1]

\* faulty variant: the shapes are compared whether or not a list is asked for
numpy_always_array(w, index, aslist) ==
    LET length == num_samples(w)
        w1 == chunk_id_encoder(w)
        idx == indices(index, length)
        samples == [i \in DOMAIN idx |-> read(w1, idx[i])]
        dynamic == \E i \in 2..Len(idx) : samples[i].shape # samples[i - 1].shape
    IN  IF w1.err # NoErr THEN [w |-> w1, samples |-> <<>>]
        ELSE IF dynamic
        THEN [w |-> Raise(w1, "DynamicTensorNumpyError"), samples |-> <<>>]
        ELSE [w |-> w1, samples |-> samples]

\* ChunkEngine.numpy(index, aslist): the world and the samples returned
numpy(w, index, aslist) ==
    LET length == num_samples(w)
        w1 == chunk_id_encoder(w)
        idx == indices(index, length)
        samples == [i \in DOMAIN idx |-> read(w1, idx[i])]
        dynamic == \E i \in 2..Len(idx) : samples[i].shape # samples[i - 1].shape
    IN  IF w1.err # NoErr THEN [w |-> w1, samples |-> <<>>]
        ELSE IF ~aslist /\ dynamic
        THEN [w |-> Raise(w1, "DynamicTensorNumpyError"), samples |-> <<>>]
        ELSE [w |-> w1, samples |-> samples]

\* ------------------------------------------------------------------------
\* The state machine
\* ------------------------------------------------------------------------
\* the tensor made of the given stored parts
WorldOf(meta, exists, encoder, chunkseq) ==
    [meta |-> meta, enc_exists |-> exists, enc |-> encoder, chunks |-> chunkseq,
     err |-> NoErr, flushes |-> 0, dirty |-> FALSE, done |-> 0, at |-> 0]

\* the world a call starts in
World == WorldOf(tensor_meta, enc_exists, enc, chunks)

\* the array value of a sample, as a read returns it
ArrayOf(sample) == [shape |-> sample.shape, data |-> sample.data]

\* what the caller observed of a call
Outcome(op, w, path, nbytes) ==
    [op |-> op, err |-> w.err, path |-> path, done |-> w.done, at |-> w.at,
     nbytes |-> nbytes, flushes |-> w.flushes, dirty |-> w.dirty]

Store(w) ==
    /\ tensor_meta' = w.meta
    /\ enc_exists' = w.enc_exists
    /\ enc' = w.enc
    /\ chunks' = w.chunks

\* the batches handed to extend: a run of one sample, then one more sample
Batches ==
    {<<>>} \cup {[i \in 1..k |-> IF i < k THEN a ELSE b] :
                     a \in Samples, b \in Samples, k \in 1..MaxBatch}

\* a numpy array of rows: one shape, one dtype
NdarrayInputs ==
    {[type |-> "ndarray", items |-> b] :
        b \in {c \in Batches : \A i, j \in DOMAIN c :
                  /\ c[i].shape = c[j].shape
                  /\ c[i].dtype = c[j].dtype}}

ListInputs == {[type |-> "list", items |-> b] : b \in Batches}

OtherInputs == {[type |-> "dict", items |-> <<>>]}

ExtendInputs == NdarrayInputs \cup ListInputs \cup OtherInputs

\* the rows extend writes, and the path it takes
RowsOf(samples) ==
    IF samples.type = "list" /\ is_uniform_sequence(samples.items)
    THEN np_array(samples.items) ELSE samples.items

PathOf(samples) ==
    IF samples.type = "ndarray" THEN "array"
    ELSE IF samples.type = "list"
    THEN IF is_uniform_sequence(samples.items) THEN "array" ELSE "sequence"
    ELSE "none"

\* the slices handed to numpy: up to MaxBatch + 1 consecutive indices
Indexes ==
    {[start |-> a, stop |-> a + n] : a \in 0..MaxSamples, n \in 0..(MaxBatch + 1)}

\* no append is running statement by statement
NoFrame == [pc |-> "none"]

\* no call is running: the caller is free to make the next one
Idle ==
    [op |-> "idle", err |-> NoErr, path |-> "none", done |-> 0, at |-> 0,
     nbytes |-> 0, flushes |-> 0, dirty |-> FALSE]

Init ==
    /\ max_chunk_size \in 3..MaxChunk
    /\ tensor_meta \in {[dtype |-> "uint8", ndim |-> NoNdim, length |-> 0,
                         sample_compression |-> c] : c \in Compressions}
    /\ enc_exists = FALSE
    /\ enc = <<>>
    /\ chunks = <<>>
    /\ appended = <<>>
    /\ result = Idle
    /\ frame = NoFrame

\* the byte length of the buffer a sample is stored as
NumBytes(sample, meta) == Len(compressed_bytes(sample, meta.sample_compression))

\* the largest byte length among the rows of a batch
MaxBytes(rows, meta) ==
    IF rows = <<>> THEN 0
    ELSE CHOOSE n \in {NumBytes(rows[i], meta) : i \in DOMAIN rows} :
             \A i \in DOMAIN rows : NumBytes(rows[i], meta) <= n

DoAppend(sample) ==
    LET w == append(World, sample)
    IN  /\ Store(w)
        /\ appended' = IF w.err = NoErr THEN Append(appended, ArrayOf(sample))
                       ELSE appended
        /\ result' = Outcome("append", w, "none", NumBytes(sample, tensor_meta))
        /\ UNCHANGED <<max_chunk_size, frame>>

DoExtend(samples) ==
    LET w == extend(World, samples)
        rows == RowsOf(samples)
    IN  /\ Store(w)
        /\ appended' = appended \o [i \in 1..w.done |-> ArrayOf(rows[i])]
        /\ result' = Outcome("extend", w, PathOf(samples), MaxBytes(rows, tensor_meta))
        /\ UNCHANGED <<max_chunk_size, frame>>

AppendCall ==
    /\ result = Idle
    /\ tensor_meta.length < MaxSamples
    /\ \E sample \in Samples : DoAppend(sample)

ExtendCall ==
    \E samples \in ExtendInputs :
        /\ result = Idle
        /\ tensor_meta.length + Len(samples.items) <= MaxSamples
        /\ DoExtend(samples)

NumpyCall ==
    \E index \in Indexes, aslist \in BOOLEAN :
        LET r == numpy(World, index, aslist)
        IN  /\ result = Idle
            /\ Store(r.w)
            /\ result' = [Outcome("numpy", r.w, "none", 0) EXCEPT !.done = Len(r.samples)]
            /\ UNCHANGED <<max_chunk_size, appended, frame>>

\* the encoder blob is lost from the cache (scenario S3)
DiscardEncoder ==
    /\ result = Idle
    /\ enc_exists
    /\ enc_exists' = FALSE
    /\ enc' = <<>>
    /\ UNCHANGED <<max_chunk_size, tensor_meta, chunks, appended, result, frame>>

\* the caller has seen the outcome of its call and goes on
Return ==
    /\ result # Idle
    /\ result' = Idle
    /\ UNCHANGED <<max_chunk_size, tensor_meta, enc_exists, enc, chunks, appended, frame>>

Next == AppendCall \/ ExtendCall \/ NumpyCall \/ Return

Spec == Init /\ [][Next]_vars

\* the end-to-end scenarios S1 and S2: an uncompressed uint8 tensor under
\* max_chunk_size = 64 that is appended samples of 4 or of 10 bytes
ScenarioChunkSizes == {64}

ScenarioSizes == {4, 10}

InitScenario ==
    /\ max_chunk_size \in ScenarioChunkSizes
    /\ tensor_meta = [dtype |-> "uint8", ndim |-> NoNdim, length |-> 0,
                      sample_compression |-> UNCOMPRESSED]
    /\ enc_exists = FALSE
    /\ enc = <<>>
    /\ chunks = <<>>
    /\ appended = <<>>
    /\ result = Idle
    /\ frame = NoFrame

ScenarioAppend ==
    /\ result = Idle
    /\ tensor_meta.length < ScenarioAppends
    /\ \E n \in ScenarioSizes : DoAppend(ArraySample(n, 1, "uint8"))

NextScenario == ScenarioAppend \/ Return

SpecScenario == InitScenario /\ [][NextScenario]_vars

NextGuard == AppendCall \/ NumpyCall \/ DiscardEncoder \/ Return

SpecGuard == Init /\ [][NextGuard]_vars

\* ------------------------------------------------------------------------
\* One append, statement by statement: an exception from outside the engine
\* (a cancelled write, a failing storage) may leave the call between any two
\* statements, and engines are constructed over the store that is there
\* ------------------------------------------------------------------------
\* ChunkEngine.__init__(key, cache, max_chunk_size): the store is not touched
__init__(w, size) ==
    IF size <= 2 THEN Raise(w, "ValueError") ELSE w

\* the call has raised: the caller observes the error
Fail(w) ==
    /\ result' = Outcome("append", w, "none", Len(frame.buffer))
    /\ frame' = NoFrame

\* the call goes on with its next statement
Goto(pc) ==
    /\ frame' = [frame EXCEPT !.pc = pc]
    /\ UNCHANGED result

\* append: the buffer of the sample and self._check_sample_size(len(data))
AppendBegin ==
    /\ result = Idle /\ frame = NoFrame
    /\ tensor_meta.length < MaxSamples
    /\ \E sample \in Samples :
          LET data == compressed_bytes(sample, tensor_meta.sample_compression)
              w == _check_sample_size(World, Len(data))
          IN  IF w.err # NoErr
              THEN /\ result' = Outcome("append", w, "none", Len(data))
                   /\ frame' = NoFrame
              ELSE /\ frame' = [pc |-> "check_compatibility", buffer |-> data,
                                shape |-> sample.shape, dtype |-> sample.dtype,
                                array |-> ArrayOf(sample), before |-> World,
                                whole |-> append(World, sample)]
                   /\ UNCHANGED result
    /\ UNCHANGED <<max_chunk_size, tensor_meta, enc_exists, enc, chunks, appended>>

\* _append_bytes: self.tensor_meta.check_compatibility(shape, dtype)
CheckCompatibility ==
    /\ frame.pc = "check_compatibility"
    /\ IF ~check_compatibility(tensor_meta, frame.shape, frame.dtype)
       THEN Fail(Raise(World, "TensorMetaMismatchError"))
       ELSE Goto("update")
    /\ UNCHANGED <<max_chunk_size, tensor_meta, enc_exists, enc, chunks, appended>>

\* _append_bytes: self.tensor_meta.update(shape, dtype, num_samples)
MetaUpdate ==
    /\ frame.pc = "update"
    /\ tensor_meta' = meta_update(tensor_meta, frame.shape, frame.dtype, 1)
    /\ Goto("try")
    /\ UNCHANGED <<max_chunk_size, enc_exists, enc, chunks, appended>>

\* _append_bytes: self._try_appending_to_last_chunk(buffer)
TryAppending ==
    /\ frame.pc = "try"
    /\ LET r == _try_appending_to_last_chunk(World, frame.buffer)
       IN  /\ Store(r.w)
           /\ IF r.w.err # NoErr THEN Fail(r.w)
              ELSE Goto(IF r.ok THEN "register" ELSE "create")
    /\ UNCHANGED <<max_chunk_size, appended>>

\* _append_to_new_chunk: new_chunk = self._create_new_chunk()
CreateNewChunk ==
    /\ frame.pc = "create"
    /\ LET w == _create_new_chunk(World)
       IN  /\ Store(w)
           /\ IF w.err # NoErr THEN Fail(w) ELSE Goto("write")
    /\ UNCHANGED <<max_chunk_size, appended>>

\* _append_to_new_chunk: new_chunk.append_sample(buffer, self.max_chunk_size)
WriteNewChunk ==
    /\ frame.pc = "write"
    /\ LET w == append_sample(World, Len(chunks), frame.buffer, max_chunk_size)
       IN  /\ Store(w)
           /\ IF w.err # NoErr THEN Fail(w) ELSE Goto("register")
    /\ UNCHANGED <<max_chunk_size, appended>>

\* _synchronize_last_chunk: register_samples_to_last_chunk_id(num_new_samples)
RegisterSamples ==
    /\ frame.pc = "register"
    /\ LET w1 == chunk_id_encoder(World)
           w2 == [w1 EXCEPT !.enc = register_samples_to_last_chunk_id(@, 1)]
       IN  IF w1.err # NoErr THEN Store(w1) /\ Fail(w1)
           ELSE Store(w2) /\ Goto("headers")
    /\ UNCHANGED <<max_chunk_size, appended>>

\* _synchronize_last_chunk: self.last_chunk.update_headers(...)
UpdateHeaders ==
    /\ frame.pc = "headers"
    /\ LET lc == last_chunk(World)
       IN  IF lc = None
           THEN /\ Fail(Raise(World, "AttributeError"))
                /\ UNCHANGED chunks
           ELSE /\ chunks' = [chunks EXCEPT ![lc] =
                                 update_headers(@, Len(frame.buffer), 1, frame.shape)]
                /\ Goto("flush")
    /\ UNCHANGED <<max_chunk_size, tensor_meta, enc_exists, enc, appended>>

\* append: self.cache.maybe_flush(), and the call returns
MaybeFlush ==
    /\ frame.pc = "flush"
    /\ result' = Outcome("append", maybe_flush(World), "none", Len(frame.buffer))
    /\ appended' = Append(appended, frame.array)
    /\ frame' = NoFrame
    /\ UNCHANGED <<max_chunk_size, tensor_meta, enc_exists, enc, chunks>>

\* an exception from outside the engine ends the call where it stands
Interrupt ==
    /\ frame # NoFrame
    /\ frame' = NoFrame
    /\ result' = [Idle EXCEPT !.op = "append", !.err = "Interrupted"]
    /\ UNCHANGED <<max_chunk_size, tensor_meta, enc_exists, enc, chunks, appended>>

\* an engine is constructed over the store
EngineStart ==
    /\ result = Idle /\ frame = NoFrame
    /\ LET w == __init__(World, max_chunk_size)
       IN  /\ Store(w)
           /\ result' = Outcome("init", w, "none", 0)
    /\ UNCHANGED <<max_chunk_size, appended, frame>>

NextSteps ==
    \/ AppendBegin \/ CheckCompatibility \/ MetaUpdate \/ TryAppending
    \/ CreateNewChunk \/ WriteNewChunk \/ RegisterSamples \/ UpdateHeaders
    \/ MaybeFlush \/ Interrupt \/ EngineStart \/ Return

SpecSteps == Init /\ [][NextSteps]_vars

\* a call that ran to its end, statement by statement, leaves what the method
\* as a whole leaves
StepsAgree ==
    [][(frame # NoFrame /\ frame' = NoFrame /\ result'.err # "Interrupted")
          => /\ tensor_meta' = frame.whole.meta
             /\ enc_exists' = frame.whole.enc_exists
             /\ enc' = frame.whole.enc
             /\ chunks' = frame.whole.chunks
             /\ result'.err = frame.whole.err
             /\ result'.flushes = frame.whole.flushes]_vars

\* ------------------------------------------------------------------------
\* Properties
\* ------------------------------------------------------------------------
NumSamples == num_samples(World)

NumChunks == num_chunks(World)

Written == result.op \in {"append", "extend"} /\ result.err = NoErr

\* C1 (length consistency): after every append or extend that returned
\* without an error, TensorMeta.length equals ChunkIdEncoder.num_samples.
C1_LengthConsistency ==
    Written => tensor_meta.length = NumSamples

\* an extend has just committed two samples of a tensor that spans two chunks
C1_Witness ==
    /\ result.op = "extend" /\ result.err = NoErr /\ result.done = 2
    /\ tensor_meta.length >= 3
    /\ NumChunks >= 2

\* C2 (chunk size bound): no chunk in the cache holds more than max_chunk_size
\* data bytes, and no write of a sample that passed the size check was ever
\* refused by a chunk for lack of space.
C2_ChunkSizeBound ==
    /\ \A id \in DOMAIN chunks : num_data_bytes(chunks[id]) <= max_chunk_size
    /\ result.err # "FullChunkError"

\* a sealed chunk filled as far as the packing lets a chunk grow
C2_Witness ==
    /\ Len(chunks) >= 2
    /\ num_data_bytes(chunks[1]) = 2 * min_chunk_size_target - 1
    /\ num_data_bytes(chunks[1]) >= 2

\* the step is a call that reaches the property chunk_id_encoder: every numpy
\* call, and every append that passed the size and the compatibility check
AccessesEncoder ==
    \/ result'.op = "numpy"
    \/ /\ result'.op = "append"
       /\ result'.err \notin {"NotImplementedError", "TensorMetaMismatchError"}

\* C3 as stated (meta guard): whenever the encoder blob is absent from the
\* cache and TensorMeta.length > 0, the first access to chunk_id_encoder fails
\* with the corrupted meta error and stores no blank encoder.
C3_AsStated ==
    [][(~enc_exists /\ tensor_meta.length > 0 /\ AccessesEncoder)
          => (result'.err = "CorruptedMetaError" /\ ~enc_exists')]_vars

\* C3 as amended: with the encoder blob absent, an access to chunk_id_encoder
\* fails with the corrupted meta error, storing no encoder, iff
\* TensorMeta.length is > 1 when the access happens; with a length of 0 or of
\* exactly 1 the access succeeds and stores a blank encoder in the cache.
C3_MetaGuard ==
    [][(~enc_exists /\ AccessesEncoder)
          => IF tensor_meta'.length > 1
             THEN result'.err = "CorruptedMetaError" /\ ~enc_exists'
             ELSE result'.err # "CorruptedMetaError" /\ enc_exists'
                    /\ (result'.op = "numpy" => enc' = <<>>)]_vars

\* a read of a tensor of two samples whose encoder was lost has failed
C3_Witness ==
    /\ result.op = "numpy" /\ result.err = "CorruptedMetaError"
    /\ ~enc_exists
    /\ tensor_meta.length > 1
    /\ Len(chunks) >= 1

\* the tensor after k appends of samples of n bytes each, and nothing else
Appended(k, n) == appended = [i \in 1..k |-> ArrayOf(ArraySample(n, 1, "uint8"))]

\* the byte ranges of a chunk are those of k samples of n bytes each
RangesAre(chunk, k, n) ==
    /\ header_num_samples(chunk.ranges) = k
    /\ \A i \in 0..(k - 1) : ranges_getitem(chunk.ranges, i) = <<n * i, n * i + n>>

\* the encoder assigns the global indices first..last to the chunk of row r
RowHolds(r, first, last) ==
    /\ r \in DOMAIN enc
    /\ enc[r].last = last
    /\ (IF r = 1 THEN 0 ELSE enc[r - 1].last + 1) = first

\* C4 as stated (scenario S1): under max_chunk_size = 64, ten appends of 4
\* bytes end with exactly 1 chunk of 40 data bytes and 10 samples, with the
\* byte ranges (0,4), (4,8), ..., (36,40).
C4_AsStated ==
    Appended(10, 4) =>
        /\ NumChunks = 1 /\ Len(chunks) = 1
        /\ num_data_bytes(chunks[1]) = 40
        /\ header_num_samples(chunks[1].shapes) = 10
        /\ RangesAre(chunks[1], 10, 4)

\* C4 as amended: under max_chunk_size = 64, ten appends of 4 bytes end with
\* exactly 2 chunks: chunk 0 holds samples 0-7 (32 bytes, ranges (0,4) ...
\* (28,32)), since a chunk of 32 bytes is no longer under the target of 32,
\* and chunk 1 holds samples 8-9 (8 bytes, ranges (0,4), (4,8)).
C4_ScenarioS1 ==
    Appended(10, 4) =>
        /\ NumChunks = 2 /\ Len(chunks) = 2 /\ NumSamples = 10
        /\ RowHolds(1, 0, 7) /\ RowHolds(2, 8, 9)
        /\ num_data_bytes(chunks[enc[1].id]) = 32
        /\ header_num_samples(chunks[enc[1].id].shapes) = 8
        /\ RangesAre(chunks[enc[1].id], 8, 4)
        /\ num_data_bytes(chunks[enc[2].id]) = 8
        /\ header_num_samples(chunks[enc[2].id].shapes) = 2
        /\ RangesAre(chunks[enc[2].id], 2, 4)

\* the tenth append of 4 bytes has returned
C4_Witness ==
    Appended(10, 4) /\ result.op = "append" /\ result.err = NoErr

\* C5 (scenario S2): under max_chunk_size = 64, seven appends of 10 bytes end
\* with exactly two chunks, chunk 0 with samples 0-3 (40 bytes) and chunk 1
\* with samples 4-6 (30 bytes); the second chunk appears at the fifth append,
\* the first one that finds the last chunk with 32 bytes or more.
C5_ScenarioS2 ==
    /\ \A k \in 1..7 : Appended(k, 10) =>
          /\ NumChunks = (IF k <= 4 THEN 1 ELSE 2)
          /\ Len(chunks) = NumChunks
          /\ num_data_bytes(chunks[enc[1].id]) = 10 * (IF k <= 4 THEN k ELSE 4)
    /\ Appended(7, 10) =>
          /\ NumSamples = 7
          /\ RowHolds(1, 0, 3) /\ RowHolds(2, 4, 6)
          /\ num_data_bytes(chunks[enc[1].id]) = 40
          /\ RangesAre(chunks[enc[1].id], 4, 10)
          /\ num_data_bytes(chunks[enc[2].id]) = 30
          /\ RangesAre(chunks[enc[2].id], 3, 10)

\* the seventh append of 10 bytes has returned
C5_Witness ==
    Appended(7, 10) /\ result.op = "append" /\ result.err = NoErr

TensorUnchanged == UNCHANGED <<tensor_meta, enc_exists, enc, chunks>>

\* C6 (size reject): an append of a sample whose buffer is longer than
\* min_chunk_size_target fails with the sample too large error
\* (NotImplementedError) and leaves the meta, the encoder and every chunk as
\* they were; a buffer of at most min_chunk_size_target bytes, the target
\* itself included, is not rejected for its size: the append fails only if
\* the sample is incompatible, and otherwise adds one sample.
C6_SizeReject ==
    [][result'.op = "append" =>
          /\ result'.nbytes > min_chunk_size_target =>
                (result'.err = "NotImplementedError" /\ TensorUnchanged
                    /\ appended' = appended)
          /\ result'.nbytes <= min_chunk_size_target =>
                /\ result'.err \in {NoErr, "TensorMetaMismatchError"}
                /\ result'.err = NoErr =>
                      /\ tensor_meta'.length = tensor_meta.length + 1
                      /\ Len(appended') = Len(appended) + 1]_vars

\* a sample one byte over the target was rejected on a tensor that holds data
C6_Witness ==
    /\ result.op = "append" /\ result.err = "NotImplementedError"
    /\ result.nbytes = min_chunk_size_target + 1
    /\ tensor_meta.length >= 2

\* C7 (batch atomicity on the array path): an extend over a uniform array (or
\* a uniform sequence) in which some sample is oversize fails with the sample
\* too large error before any write: no sample is committed, and the meta,
\* the encoder and every chunk are the same after the call as before it, in
\* the uncompressed and in the compressed branch.
C7_ArrayPathAtomic ==
    [][(result'.op = "extend" /\ result'.path = "array"
            /\ result'.nbytes > min_chunk_size_target)
          => /\ result'.err = "NotImplementedError"
             /\ result'.done = 0
             /\ TensorUnchanged
             /\ appended' = appended]_vars

\* compressed branch: the second row of the array was the oversize one, and
\* the tensor already held data
C7_Witness ==
    /\ result.op = "extend" /\ result.path = "array"
    /\ result.err = "NotImplementedError" /\ result.at = 2
    /\ tensor_meta.sample_compression # UNCOMPRESSED
    /\ tensor_meta.length >= 1

\* every sample the encoder of w counts reads back as the sample the history
\* holds at that place
ReadsBack(w, history) ==
    \A g \in 0..(num_samples(w) - 1) :
        g + 1 \in DOMAIN history /\ read(w, g) = history[g + 1]

Readable == ReadsBack(World, appended)

\* C8 (per-sample path failure): when an extend over a non-uniform sequence
\* fails at its k-th sample, exactly the first k-1 samples are committed:
\* TensorMeta.length = ChunkIdEncoder.num_samples = (count before) + k - 1,
\* and each committed sample is readable at its index.
C8_PerSamplePrefix ==
    [][(result'.op = "extend" /\ result'.path = "sequence"
            /\ result'.err \in {"NotImplementedError", "TensorMetaMismatchError"})
          => /\ result'.at >= 1
             /\ result'.done = result'.at - 1
             /\ tensor_meta'.length = tensor_meta.length + result'.at - 1
             /\ NumSamples' = NumSamples + result'.at - 1
             /\ tensor_meta'.length = NumSamples'
             /\ Len(appended') = NumSamples'
             /\ \A m \in {tensor_meta'}, x \in {enc_exists'}, e \in {enc'},
                   c \in {chunks'}, a \in {appended'} :
                    ReadsBack(WorldOf(m, x, e, c), a)]_vars

\* the second sample of a non-uniform sequence failed after the first was
\* committed
C8_Witness ==
    /\ result.op = "extend" /\ result.path = "sequence"
    /\ result.err # NoErr /\ result.at = 2 /\ result.done = 1
    /\ tensor_meta.length >= 2

\* C9 (round trip and read stability): after any sequence of appends and
\* extends, every index g < num_samples reads back (encoder lookup of the
\* chunk, local index, byte range slice, decoding) as the shape and the bytes
\* of the g-th sample ever appended, compressed or not, and no later call
\* changes what an index returns.
C9_RoundTrip ==
    [][\A m \in {tensor_meta'}, x \in {enc_exists'}, e \in {enc'},
         c \in {chunks'}, a \in {appended'} :
          LET after == WorldOf(m, x, e, c)
          IN  /\ Len(a) = NumSamples'
              /\ ReadsBack(after, a)
              /\ \A g \in 0..(NumSamples - 1) :
                     read(after, g) = read(World, g)]_vars

\* a compressed tensor of three samples in two chunks, two of them of the same
\* shape and of different content
C9_Witness ==
    /\ tensor_meta.sample_compression # UNCOMPRESSED
    /\ NumSamples >= 3 /\ NumChunks >= 2
    /\ \E g, h \in DOMAIN appended :
          /\ appended[g].shape = appended[h].shape
          /\ appended[g].data # appended[h].data
    /\ get_local_sample_index(enc, NumSamples - 1) # NumSamples - 1

\* the last chunk before a step, its size, and the buffer an append stored
LastSize == IF last_chunk(World) = None THEN 0
            ELSE num_data_bytes(chunks[last_chunk(World)])

CeilDiv(a, b) == IF a % b = 0 THEN a \div b ELSE a \div b + 1

StoredBuffer ==
    compressed_bytes([data |-> appended'[Len(appended')].data],
                     tensor_meta.sample_compression)

\* the rule of the packing: when a sample of b bytes goes to a fresh chunk
FreshChunkRule(b) ==
    \/ last_chunk(World) = None
    \/ LastSize >= max_chunk_size \div 2
    \/ CeilDiv(b + LastSize, max_chunk_size) # CeilDiv(b, max_chunk_size)

\* the chunk with the given id took the buffer as its newest sample
Received(id, old, buffer, shape) ==
    /\ chunks'[id].data = old.data \o buffer
    /\ header_num_samples(chunks'[id].shapes) = header_num_samples(old.shapes) + 1
    /\ header_num_samples(chunks'[id].ranges) = header_num_samples(old.ranges) + 1
    /\ shapes_getitem(chunks'[id].shapes, header_num_samples(old.shapes)) = shape
    /\ ranges_getitem(chunks'[id].ranges, header_num_samples(old.ranges))
          = <<Len(old.data), Len(old.data) + Len(buffer)>>

\* C10 (packing rule): an accepted sample of b bytes that finds a last chunk
\* of s bytes is written to a freshly created chunk iff there is no last
\* chunk, or s >= min_chunk_size_target, or ceil((b+s)/max_chunk_size) differs
\* from ceil(b/max_chunk_size); otherwise the whole sample is appended to the
\* last chunk.  Either way exactly 1 sample is registered on the last row of
\* the encoder, and the headers of the chunk that took the bytes are updated.
C10_PackingRule ==
    [][(result'.op = "append" /\ result'.err = NoErr) =>
          LET b == result'.nbytes
              shape == appended'[Len(appended')].shape
          IN  /\ Len(StoredBuffer) = b
              /\ IF FreshChunkRule(b)
                 THEN /\ Len(chunks') = Len(chunks) + 1
                      /\ Len(enc') = Len(enc) + 1
                      /\ enc'[Len(enc')].id = Len(chunks')
                      /\ Received(Len(chunks'), EmptyChunk, StoredBuffer, shape)
                      /\ \A id \in DOMAIN chunks : chunks'[id] = chunks[id]
                 ELSE /\ Len(chunks') = Len(chunks)
                      /\ Len(enc') = Len(enc)
                      /\ enc'[Len(enc')].id = last_chunk(World)
                      /\ Received(last_chunk(World), chunks[last_chunk(World)],
                                  StoredBuffer, shape)
                      /\ \A id \in DOMAIN chunks \ {last_chunk(World)} :
                            chunks'[id] = chunks[id]
              /\ enc'[Len(enc')].last = NumSamples
              /\ NumSamples' = NumSamples + 1
              /\ \A r \in 1..(Len(enc) - 1) : enc'[r] = enc[r]]_vars

\* an empty sample went to a fresh chunk although the last chunk, not empty,
\* was under the target: the two chunk counts differ
C10_Witness ==
    /\ result.op = "append" /\ result.err = NoErr /\ result.nbytes = 0
    /\ Len(chunks) >= 2
    /\ num_data_bytes(chunks[Len(chunks)]) = 0
    /\ num_data_bytes(chunks[Len(chunks) - 1]) > 0
    /\ num_data_bytes(chunks[Len(chunks) - 1]) < min_chunk_size_target

\* C11 (packing optimality): an accepted sample of b bytes, the empty sample
\* included, that finds a last chunk under min_chunk_size_target which can take
\* it within max_chunk_size is written to that chunk: the append creates no
\* chunk.
C11_PackingOptimal ==
    [][(result'.op = "append" /\ result'.err = NoErr
            /\ last_chunk(World) # None
            /\ LastSize < min_chunk_size_target
            /\ LastSize + result'.nbytes <= max_chunk_size)
          => (Len(chunks') = Len(chunks) /\ Len(enc') = Len(enc))]_vars

\* the number of samples the encoder assigns to the chunk with the given id
SamplesOf(id) ==
    Cardinality({g \in 0..(NumSamples - 1) : enc_getitem(enc, g) = id})

RECURSIVE SumOfRanges(_, _)
SumOfRanges(chunk, n) ==
    IF n = 0 THEN 0
    ELSE LET r == ranges_getitem(chunk.ranges, n - 1)
         IN  (r[2] - r[1]) + SumOfRanges(chunk, n - 1)

\* the byte ranges of the n samples of a chunk are sorted and disjoint, they
\* cover [0, num_data_bytes), and the chunk has n shape entries
Coherent(chunk, n) ==
    /\ header_num_samples(chunk.shapes) = n
    /\ header_num_samples(chunk.ranges) = n
    /\ SumOfRanges(chunk, n) = num_data_bytes(chunk)
    /\ \A i \in 0..(n - 1) :
          LET r == ranges_getitem(chunk.ranges, i)
          IN  /\ r[1] <= r[2]
              /\ r[1] = (IF i = 0 THEN 0 ELSE ranges_getitem(chunk.ranges, i - 1)[2])
              /\ (i = n - 1 => r[2] = num_data_bytes(chunk))
    /\ (n = 0 => num_data_bytes(chunk) = 0)

\* C12 (header coherence): after every successful append or extend, in every
\* chunk the byte ranges sum up to num_data_bytes, they are sorted, disjoint
\* and cover [0, num_data_bytes), and the chunk has as many shape entries as
\* the encoder assigns samples to it.
C12_HeaderCoherence ==
    Written => \A id \in DOMAIN chunks : Coherent(chunks[id], SamplesOf(id))

\* an extend has returned; a sealed chunk holds samples of two sizes and the
\* last chunk holds two samples
C12_Witness ==
    /\ result.op = "extend" /\ result.err = NoErr /\ result.done = 2
    /\ Len(chunks) >= 2
    /\ Len(chunks[1].ranges) >= 2
    /\ SamplesOf(Len(chunks)) >= 2

\* a successor of the chunk exists: a later row of the encoder names another chunk
Sealed(id) == \E r \in 1..(Len(enc) - 1) : enc[r].id = id

\* C13 (sealed chunks are immutable): once a later row exists in the chunk id
\* encoder, no append, extend or read changes the data bytes, the shapes, the
\* byte ranges or the sample count of a chunk; a call changes only the chunk
\* of the encoder's last row and the chunks it creates.
C13_SealedImmutable ==
    [][/\ \A id \in DOMAIN chunks :
             (Sealed(id) \/ Len(enc) = 0 \/ id # enc[Len(enc)].id)
                => (id \in DOMAIN chunks' /\ chunks'[id] = chunks[id])
       /\ \A r \in 1..(Len(enc) - 1) : r \in DOMAIN enc' /\ enc'[r] = enc[r]
       /\ Len(enc) >= 1 => (Len(enc') >= Len(enc)
                               /\ enc'[Len(enc)].id = enc[Len(enc)].id)]_vars

\* an append wrote to the third chunk, which held a sample already, while two
\* sealed chunks stood before it
C13_Witness ==
    /\ result.op = "append" /\ result.err = NoErr
    /\ Len(chunks) >= 3
    /\ Sealed(1) /\ Sealed(2)
    /\ SamplesOf(Len(chunks)) >= 2

\* the global indices a slice selects
SelectedBy(index) == {g \in 0..(NumSamples - 1) : index.start <= g /\ g < index.stop}

\* the samples a slice selects were all appended with one shape
OneShape(index) ==
    \A g, h \in SelectedBy(index) : appended[g + 1].shape = appended[h + 1].shape

\* C17 (dynamic-shape view): numpy(index, aslist=False) fails with the dynamic
\* shape error iff the samples the index selects do not all have the same
\* shape, and returns one array per selected sample otherwise; numpy(index,
\* aslist=True) returns one entry per selected sample whatever the shapes; a
\* read changes neither TensorMeta.length, nor num_samples, nor any chunk.
C17_DynamicView ==
    \A index \in Indexes :
        LET view == numpy(World, index, FALSE)
            list == numpy(World, index, TRUE)
        IN  /\ (view.w.err = "DynamicTensorNumpyError") <=> ~OneShape(index)
            /\ OneShape(index) =>
                  /\ view.w.err = NoErr
                  /\ Len(view.samples) = Cardinality(SelectedBy(index))
            /\ list.w.err = NoErr
            /\ Len(list.samples) = Cardinality(SelectedBy(index))
            /\ \A g \in SelectedBy(index) :
                  list.samples[g - index.start + 1].shape = appended[g + 1].shape
            /\ \A w \in {view.w, list.w} :
                  /\ w.meta = tensor_meta /\ w.chunks = chunks
                  /\ num_samples(w) = NumSamples

\* an array view of three samples failed: the first and the last have one
\* shape, the one between them another
C17_Witness ==
    /\ result.op = "numpy" /\ result.err = "DynamicTensorNumpyError"
    /\ NumSamples >= 3
    /\ \E g \in 1..(Len(appended) - 2) :
          /\ appended[g].shape = appended[g + 2].shape
          /\ appended[g].shape # appended[g + 1].shape

\* every sample of the history was stored as a buffer of at least 1 byte
AtLeastOneByte(history) ==
    \A i \in DOMAIN history :
        Len(compressed_bytes([data |-> history[i].data],
                             tensor_meta.sample_compression)) >= 1

\* C18 (sealing threshold): as long as every appended sample has at least 1
\* byte, an append creates a chunk only when there is no last chunk or the last
\* chunk holds at least min_chunk_size_target bytes, and so every chunk other
\* than the last one holds at least min_chunk_size_target bytes.
C18_SealingThreshold ==
    [][\A a \in {appended'}, c \in {chunks'} :
          AtLeastOneByte(a) =>
             /\ \A id \in 1..(Len(c) - 1) :
                   num_data_bytes(c[id]) >= min_chunk_size_target
             /\ (result'.op = "append" /\ Len(c) > Len(chunks))
                   => (last_chunk(World) = None
                          \/ LastSize >= min_chunk_size_target)]_vars

\* samples of 1 byte or more have filled two chunks to the target, the first
\* of them with several samples
C18_Witness ==
    /\ Written /\ AtLeastOneByte(appended)
    /\ Len(chunks) >= 3
    /\ SamplesOf(1) >= 2
    /\ num_data_bytes(chunks[1]) >= min_chunk_size_target

\* the buffer a sample of the history was stored as
StoredAs(array) ==
    compressed_bytes([data |-> array.data], tensor_meta.sample_compression)

\* the rows of an encoder that count the global index g among their samples
RowsHolding(rows, g) ==
    {r \in DOMAIN rows :
        /\ (IF r = 1 THEN 0 ELSE rows[r - 1].last + 1) <= g
        /\ g <= rows[r].last}

\* C19 (one chunk per sample): when _try_appending_to_last_chunk appends,
\* extra_bytes = min(len(buffer), max_chunk_size - last_chunk_size) is
\* len(buffer), so the whole sample is written; the encoder maps each global
\* index to exactly one chunk, the whole buffer of the sample lies in that
\* chunk, and the byte range the headers give the sample has the length of
\* the buffer that was written.
C19_OneChunkPerSample ==
    [][\A a \in {appended'}, c \in {chunks'}, e \in {enc'} :
          /\ \A g \in 0..(Len(a) - 1) :
                /\ Cardinality(RowsHolding(e, g)) = 1
                /\ \A r \in RowsHolding(e, g) :
                      LET chunk == c[e[r].id]
                          local == IF r = 1 THEN g ELSE g - (e[r - 1].last + 1)
                          range == ranges_getitem(chunk.ranges, local)
                      IN  /\ 0 <= range[1] /\ range[2] <= num_data_bytes(chunk)
                          /\ range[2] - range[1] = Len(StoredAs(a[g + 1]))
                          /\ Slice(chunk.data, range[1], range[2]) = StoredAs(a[g + 1])
          /\ (result'.op = "append" /\ result'.err = NoErr /\ Len(c) = Len(chunks))
                => /\ Min(result'.nbytes, max_chunk_size - LastSize) = result'.nbytes
                   /\ num_data_bytes(c[Len(c)]) = LastSize + result'.nbytes]_vars

\* a sample of two bytes was appended whole to a last chunk that held a byte
\* already, behind a sealed chunk
C19_Witness ==
    /\ result.op = "append" /\ result.err = NoErr /\ result.nbytes = 2
    /\ Len(chunks) >= 2
    /\ num_data_bytes(chunks[Len(chunks)]) = 3
    /\ SamplesOf(Len(chunks)) = 2

\* C16 (flush discipline): an append or extend that returns successfully has
\* called cache.maybe_flush() at least once after its last write to a chunk;
\* a call that fails calls maybe_flush no more once the error is raised (an
\* append not at all, an extend only within the iterations it completed); and
\* no call of the engine removes a key from the cache.
C16_FlushDiscipline ==
    [][/\ (result'.op \in {"append", "extend"} /\ result'.err = NoErr)
             => (result'.flushes >= 1 /\ ~result'.dirty)
       /\ (result'.op = "append" /\ result'.err # NoErr) => result'.flushes = 0
       /\ (result'.op = "extend" /\ result'.err # NoErr)
             => result'.flushes <= result'.done
       /\ (enc_exists => enc_exists')
       /\ Len(chunks') >= Len(chunks)]_vars

\* an extend over a uniform list has returned: the inner call on the array
\* and the outer call have each flushed after the two samples were written
C16_Witness ==
    /\ result.op = "extend" /\ result.err = NoErr /\ result.path = "array"
    /\ result.done = 2 /\ result.flushes = 2 /\ ~result.dirty
    /\ tensor_meta.sample_compression = UNCOMPRESSED

\* C20 (first write bootstraps the encoder): on a tensor with
\* TensorMeta.length = 0 and no encoder blob in the cache, the first append,
\* and the first sample of an extend, never raises the corrupted meta error,
\* although TensorMeta.length is 1 already when the encoder is first accessed:
\* a blank encoder is created and stored, and the write of the first sample
\* ends with exactly 1 chunk, num_samples = 1 and TensorMeta.length = 1.
C20_FirstWrite ==
    [][(tensor_meta.length = 0 /\ ~enc_exists
            /\ result'.op \in {"append", "extend"})
          => /\ result'.err # "CorruptedMetaError"
             /\ (result'.op = "append" /\ result'.err = NoErr)
                   => /\ enc_exists'
                      /\ Len(chunks') = 1 /\ Len(enc') = 1
                      /\ enc'[1].last = 0
                      /\ tensor_meta'.length = 1
             /\ (result'.op = "extend" /\ result'.done >= 1)
                   => /\ enc_exists'
                      /\ Len(chunks') >= 1 /\ Len(enc') = Len(chunks')
                      /\ enc'[1].last >= 0
                      /\ enc'[Len(enc')].last = result'.done - 1
                      /\ tensor_meta'.length = result'.done
                      /\ (result'.done = 1 => Len(chunks') = 1)]_vars

\* the first append to the tensor has returned
C20_Witness ==
    /\ result.op = "append" /\ result.err = NoErr
    /\ tensor_meta.length = 1 /\ Len(appended) = 1
    /\ enc_exists /\ Len(enc) = 1 /\ Len(chunks) = 1

\* the running append has written a chunk byte, created a chunk or touched the
\* encoder
DataTouched ==
    \/ chunks # frame.before.chunks
    \/ enc # frame.before.enc
    \/ enc_exists # frame.before.enc_exists

\* within an append the compatibility check and TensorMeta.update come before
\* any chunk byte is written, any chunk is created and any sample is registered
MetaBeforeData ==
    (frame # NoFrame /\ DataTouched)
        => /\ check_compatibility(frame.before.meta, frame.shape, frame.dtype)
           /\ tensor_meta.length = frame.before.meta.length + 1

\* the metadata counts at most one sample more than the encoder, never fewer
OvercountAtMostOne ==
    /\ 0 <= tensor_meta.length - NumSamples
    /\ tensor_meta.length - NumSamples <= 1

\* the same, for the appends that start with the two counts equal
OvercountWithinAppend ==
    (frame # NoFrame /\ frame.before.meta.length = num_samples(frame.before))
        => OvercountAtMostOne

\* C14 (metadata-before-data ordering): within every append,
\* check_compatibility and TensorMeta.update happen before any chunk byte is
\* written, any chunk is created or any sample is registered; and in every
\* intermediate state of a write, at any point where it may be interrupted,
\* 0 <= TensorMeta.length - ChunkIdEncoder.num_samples <= 1.
C14_MetaBeforeData ==
    /\ MetaBeforeData
    /\ OvercountAtMostOne

\* C15 (recovery trim): an engine that starts over a store in which
\* TensorMeta.length exceeds ChunkIdEncoder.num_samples sets TensorMeta.length
\* to min(TensorMeta.length, ChunkIdEncoder.num_samples), so that after the
\* next successful append TensorMeta.length = ChunkIdEncoder.num_samples.
C15_RecoveryTrim ==
    [][/\ result'.op = "init"
             => tensor_meta'.length = Min(tensor_meta.length, NumSamples)
       /\ (result'.op = "append" /\ result'.err = NoErr)
             => \A e \in {enc'} : tensor_meta'.length = enc_num_samples(e)]_vars

====
